---- MODULE Spec2Model ----
(***************************************************************************)
(* A model of reader.py (MetaReader): the EXIF image extractor ImageMeta,  *)
(* the OpenCamera .srt log extractor VideoMeta, and the csv export loop    *)
(* both of them end with.                                                  *)
(*                                                                         *)
(* Text is modelled as sequences of one-character strings (Deg stands for  *)
(* the one-character degree sign), over the alphabet                       *)
(*   0-9  space  newline  , : - + > ' " . _ / ^  Deg  and the letters.     *)
(* A float is a binary64 value: sign, 53-bit mantissa and exponent, every  *)
(* operation rounded as IEEE 754 rounds it. A float rounded to 6 decimals  *)
(* is held as the integer number of millionths, and a parsed timestamp as  *)
(* its time of day. Integers are TLC's: int() of more than 9 digits,      *)
(* float() of more than 80 digits and rationals with terms of 2^23 or more *)
(* are outside the model.                                                  *)
(***************************************************************************)
EXTENDS Integers, Sequences, FiniteSets, TLC

\* ------------------------------------------------------------------ text

Deg == "deg"
NL == "\n"
DigitChars == <<"0", "1", "2", "3", "4", "5", "6", "7", "8", "9">>
IsDigit(c) == \E i \in 1..10 : DigitChars[i] = c
\* The characters str.strip() and int()/float() treat as white space.
Whitespace == {" ", NL}

Min(a, b) == IF a < b THEN a ELSE b
Abs(n) == IF n < 0 THEN -n ELSE n

RECURSIVE Pow10(_)
Pow10(n) == IF n = 0 THEN 1 ELSE 10 * Pow10(n - 1)

AllDigits(s) == \A i \in 1..Len(s) : IsDigit(s[i])

\* A digit string of a Python numeric literal: digits, with single
\* underscores allowed between them; and its digits.
ValidDigits(s) ==
    /\ s # <<>> /\ IsDigit(s[1]) /\ IsDigit(s[Len(s)])
    /\ \A i \in 1..Len(s) : IsDigit(s[i]) \/ (s[i] = "_" /\ s[i - 1] # "_")
PlainDigits(s) == SelectSeq(s, IsDigit)

\* str.lower() on the letters A-Z.
UpperChars ==
    <<"A", "B", "C", "D", "E", "F", "G", "H", "I", "J", "K", "L", "M", "N", "O",
      "P", "Q", "R", "S", "T", "U", "V", "W", "X", "Y", "Z">>
LowerChars ==
    <<"a", "b", "c", "d", "e", "f", "g", "h", "i", "j", "k", "l", "m", "n", "o",
      "p", "q", "r", "s", "t", "u", "v", "w", "x", "y", "z">>
LowerChar(c) ==
    IF \E i \in 1..Len(UpperChars) : UpperChars[i] = c
    THEN LowerChars[CHOOSE i \in 1..Len(UpperChars) : UpperChars[i] = c]
    ELSE c
Lower(s) == [i \in 1..Len(s) |-> LowerChar(s[i])]

RECURSIVE DigitsValue(_)
DigitsValue(s) ==
    IF s = <<>> THEN 0
    ELSE DigitsValue(SubSeq(s, 1, Len(s) - 1)) * 10
         + (CHOOSE i \in 1..10 : DigitChars[i] = s[Len(s)]) - 1

RECURSIVE LStrip(_)
LStrip(s) == IF s # <<>> /\ Head(s) \in Whitespace THEN LStrip(Tail(s)) ELSE s

RECURSIVE RStrip(_)
RStrip(s) ==
    IF s # <<>> /\ s[Len(s)] \in Whitespace
    THEN RStrip(SubSeq(s, 1, Len(s) - 1)) ELSE s

\* A sign prefix, as int() and float() accept it: <<sign, rest>>.
SignOf(s) ==
    IF s # <<>> /\ Head(s) = "-" THEN <<-1, Tail(s)>>
    ELSE IF s # <<>> /\ Head(s) = "+" THEN <<1, Tail(s)>>
    ELSE <<1, s>>

Parsed(v) == [ok |-> TRUE, v |-> v]
\* A ValueError of a parse.
NotParsed == [ok |-> FALSE, v |-> 0]

\* Python's int(str): white space stripped, an optional sign, decimal digits
\* (single underscores between them allowed); anything else is a ValueError.
IntOfSigned(sg) ==
    IF ValidDigits(sg[2]) THEN Parsed(sg[1] * DigitsValue(PlainDigits(sg[2])))
    ELSE NotParsed
PyInt(s) == IntOfSigned(SignOf(LStrip(RStrip(s))))

\* re.split on a character class, and str.split on a one-character separator:
\* the pieces between the separators, empty pieces kept. SepAt is the
\* position of the j-th separator, 0 before the first and Len(s) + 1 after
\* the last.
Seps(s, D) == {i \in 1..Len(s) : s[i] \in D}
SepAt(s, D, j) ==
    IF j = 0 THEN 0
    ELSE IF j > Cardinality(Seps(s, D)) THEN Len(s) + 1
    ELSE CHOOSE i \in Seps(s, D) : Cardinality({p \in Seps(s, D) : p < i}) = j - 1
SplitChars(s, D) ==
    [j \in 1..(Cardinality(Seps(s, D)) + 1) |->
        SubSeq(s, SepAt(s, D, j - 1) + 1, SepAt(s, D, j) - 1)]
PutChar(c, rest) == << <<c>> \o Head(rest) >> \o Tail(rest)

\* str.split(sep) for a separator of several characters.
RECURSIVE SplitSeq(_, _)
SplitSeq(s, sep) ==
    IF Len(s) < Len(sep) THEN <<s>>
    ELSE IF SubSeq(s, 1, Len(sep)) = sep
         THEN << <<>> >> \o SplitSeq(SubSeq(s, Len(sep) + 1, Len(s)), sep)
         ELSE PutChar(Head(s), SplitSeq(Tail(s), sep))

\* ---- natural numbers of any size

\* A natural number as its limbs in radix Limb, least significant first
\* (TLC's integers have 32 bits; a double's mantissa has 53).
Limb == 256
RECURSIVE NatOfInt(_)
NatOfInt(n) == IF n = 0 THEN <<>> ELSE <<n % Limb>> \o NatOfInt(n \div Limb)
RECURSIVE IntOfNat(_)
IntOfNat(x) == IF x = <<>> THEN 0 ELSE Head(x) + Limb * IntOfNat(Tail(x))
RECURSIVE Trim(_)
Trim(x) ==
    IF x # <<>> /\ x[Len(x)] = 0 THEN Trim(SubSeq(x, 1, Len(x) - 1)) ELSE x
LimbAt(x, i) == IF i <= Len(x) THEN x[i] ELSE 0
Zeros(n) == [i \in 1..n |-> 0]

RECURSIVE Pow2(_)
Pow2(n) == IF n = 0 THEN 1 ELSE 2 * Pow2(n - 1)
RECURSIVE BitsOfInt(_)
BitsOfInt(n) == IF n = 0 THEN 0 ELSE 1 + BitsOfInt(n \div 2)
BitLenTrimmed(x) == IF x = <<>> THEN 0 ELSE 8 * (Len(x) - 1) + BitsOfInt(x[Len(x)])
BitLen(x) == BitLenTrimmed(Trim(x))

\* x * k and x divided by k, for 0 < k < 2^23.
\* Limbs lo..hi of x times k, plus the carry in: the limbs of the product and
\* the carry out. The range is halved, the lower half first.
MulJoin(a, b) == [out |-> a.out \o b.out, carry |-> b.carry]
RECURSIVE MulRange(_, _, _, _, _)
MulUpper(x, k, mid, hi, a) == MulJoin(a, MulRange(x, k, mid + 1, hi, a.carry))
MulRange(x, k, lo, hi, carry) ==
    IF lo > hi THEN [out |-> <<>>, carry |-> carry]
    ELSE IF lo = hi
    THEN [out |-> <<(x[lo] * k + carry) % Limb>>,
          carry |-> (x[lo] * k + carry) \div Limb]
    ELSE MulUpper(x, k, (lo + hi) \div 2, hi,
                  MulRange(x, k, lo, (lo + hi) \div 2, carry))
MulOut(m) == m.out \o NatOfInt(m.carry)
MulSmall(x, k) == MulOut(MulRange(x, k, 1, Len(x), 0))
\* Long division of limbs hi down to lo of x by k, r the remainder coming in:
\* the limbs of the quotient, the most significant first, and the remainder.
\* The upper half first.
DivJoin(a, b) == [q |-> a.q \o b.q, r |-> b.r]
RECURSIVE DivRange(_, _, _, _, _)
DivLower(x, k, lo, mid, a) == DivJoin(a, DivRange(x, k, lo, mid, a.r))
DivRange(x, k, lo, hi, r) ==
    IF lo > hi THEN [q |-> <<>>, r |-> r]
    ELSE IF lo = hi
    THEN [q |-> <<(r * Limb + x[lo]) \div k>>, r |-> (r * Limb + x[lo]) % k]
    ELSE DivLower(x, k, lo, (lo + hi) \div 2,
                  DivRange(x, k, (lo + hi) \div 2 + 1, hi, r))
DivResult(d) == [q |-> [i \in 1..Len(d.q) |-> d.q[Len(d.q) - i + 1]], r |-> d.r]
DivSmall(x, k) == DivResult(DivRange(x, k, 1, Len(x), 0))

RECURSIVE AddFrom(_, _, _, _)
AddFrom(x, y, i, carry) ==
    IF i > Len(x) /\ i > Len(y) THEN (IF carry = 0 THEN <<>> ELSE <<carry>>)
    ELSE <<(LimbAt(x, i) + LimbAt(y, i) + carry) % Limb>>
         \o AddFrom(x, y, i + 1, (LimbAt(x, i) + LimbAt(y, i) + carry) \div Limb)
NatAdd(x, y) == AddFrom(x, y, 1, 0)
\* x - y for x >= y.
RECURSIVE SubFrom(_, _, _, _)
SubFrom(x, y, i, borrow) ==
    IF i > Len(x) THEN <<>>
    ELSE <<(LimbAt(x, i) - LimbAt(y, i) - borrow + Limb) % Limb>>
         \o SubFrom(x, y, i + 1,
                    IF LimbAt(x, i) - LimbAt(y, i) - borrow < 0 THEN 1 ELSE 0)
NatSub(x, y) == SubFrom(x, y, 1, 0)
RECURSIVE NatLessAt(_, _, _)
NatLessAt(x, y, i) ==
    IF i = 0 THEN FALSE
    ELSE IF LimbAt(x, i) # LimbAt(y, i) THEN LimbAt(x, i) < LimbAt(y, i)
    ELSE NatLessAt(x, y, i - 1)

\* x * 2^s, bit i of x (bit 0 the lowest), and x divided by 2^s, the
\* remainder dropped.
ShiftLeft(x, s) == Zeros(s \div 8) \o MulSmall(x, Pow2(s % 8))
BitAt(x, i) == (LimbAt(x, i \div 8 + 1) \div Pow2(i % 8)) % 2
ShiftRight(x, s) == DivSmall(SubSeq(x, s \div 8 + 1, Len(x)), Pow2(s % 8)).q

\* (x + f) / 2^s rounded to the nearest integer, ties to even, where f is a
\* fraction in [0, 1), not zero when st is set; s > 0. The guard bit is bit
\* s - 1 of x, and the rest is sticky when st is set or a bit below the guard
\* bit is.
RoundedTo(q, guard, sticky) ==
    IF guard = 1 /\ (sticky \/ BitAt(q, 0) = 1) THEN NatAdd(q, <<1>>) ELSE q
RoundShift(x, s, st) ==
    IF s = 0 THEN x
    ELSE RoundedTo(ShiftRight(x, s), BitAt(x, s - 1),
                   \/ st
                   \/ \E j \in 1..((s - 1) \div 8) : LimbAt(x, j) # 0
                   \/ LimbAt(x, (s - 1) \div 8 + 1) % Pow2((s - 1) % 8) # 0)

\* ---- binary64 arithmetic

\* A double: s * m * 2^e with s its sign (0 for zero) and m a natural number
\* of exactly 53 bits. Every operation is rounded to the nearest double, ties
\* to even, as IEEE 754 and Python's true division do. (The arithmetic has
\* no subnormals, infinities or signed zeros: the quotients and sums of the
\* model are far from them. float(str) below has them.)
FZero == [s |-> 0, m |-> <<>>, e |-> 0]
FNeg(x) == [s |-> 0 - x.s, m |-> x.m, e |-> x.e]
Carried(m, e) ==
    IF BitLen(m) > 53 THEN [m |-> Trim(ShiftRight(m, 1)), e |-> e + 1]
    ELSE [m |-> Trim(m), e |-> e]
RoundBits(n, len, e, st) ==
    IF len <= 53 THEN [m |-> Trim(ShiftLeft(n, 53 - len)), e |-> e - (53 - len)]
    ELSE Carried(RoundShift(n, len - 53, st), e + (len - 53))
Signed(sg, me) == [s |-> sg, m |-> me.m, e |-> me.e]
\* The double nearest to sg * (n + f) * 2^e, f as in RoundShift.
FRound(sg, n, e, st) ==
    IF Trim(n) = <<>> THEN FZero ELSE Signed(sg, RoundBits(Trim(n), BitLen(n), e, st))

\* float(n) of an integer, x / k of a double by an integer (0 < |k| < 2^23),
\* n / d of two integers (Python's true division), and x + y.
FOfInt(n) == FRound(IF n < 0 THEN 0 - 1 ELSE 1, NatOfInt(Abs(n)), 0, FALSE)
DivRounded(sg, e, d) == FRound(sg, d.q, e, d.r # 0)
FDivInt(x, k) ==
    IF x.s = 0 THEN FZero
    ELSE DivRounded(IF k < 0 THEN 0 - x.s ELSE x.s, x.e - 24,
                    DivSmall(Zeros(3) \o x.m, Abs(k)))
FDiv(n, d) == FDivInt(FOfInt(n), d)
FAddAligned(sx, x, sy, y, e) ==
    IF sx = sy THEN FRound(sx, NatAdd(x, y), e, FALSE)
    ELSE IF NatLessAt(x, y, IF Len(x) > Len(y) THEN Len(x) ELSE Len(y))
    THEN FRound(sy, NatSub(y, x), e, FALSE)
    ELSE FRound(sx, NatSub(x, y), e, FALSE)
FAdd(x, y) ==
    IF x.s = 0 THEN y
    ELSE IF y.s = 0 THEN x
    ELSE FAddAligned(x.s, ShiftLeft(x.m, x.e - Min(x.e, y.e)),
                     y.s, ShiftLeft(y.m, y.e - Min(x.e, y.e)), Min(x.e, y.e))

\* round(x, 6) in millionths: the exact value of the double x times 10^6,
\* rounded to the nearest integer, ties to even.
Scaled(n, e) == IF e >= 0 THEN ShiftLeft(n, e) ELSE RoundShift(n, 0 - e, FALSE)
FRound6(x) ==
    IF x.s = 0 THEN 0 ELSE x.s * IntOfNat(Trim(Scaled(MulSmall(x.m, 1000000), x.e)))

\* ---- float(str)

\* A float parsed from text: a finite double, by its sign and its magnitude
\* (float("-0") is -0.0), nan, or an infinity.
Finite(sign, x) == [cls |-> "finite", sign |-> sign, x |-> x]
NaN == [cls |-> "nan", sign |-> 1, x |-> FZero]
Inf(sign) == [cls |-> "inf", sign |-> sign, x |-> FZero]

RECURSIVE StripZeros(_)
StripZeros(d) == IF d # <<>> /\ Head(d) = "0" THEN StripZeros(Tail(d)) ELSE d
\* The natural number a digit string writes, read n <= 6 digits at a time
\* from digit i on: acc * 10^n + the n digits.
RECURSIVE NatOfDigitsFrom(_, _, _)
NextDigits(d, i, n, acc) ==
    NatOfDigitsFrom(d, i + n,
        MulOut(MulRange(acc, Pow10(n), 1, Len(acc),
                        DigitsValue(SubSeq(d, i, i + n - 1)))))
NatOfDigitsFrom(d, i, acc) ==
    IF i > Len(d) THEN acc ELSE NextDigits(d, i, Min(6, Len(d) - i + 1), acc)
\* x times 10^k, six powers at a time.
RECURSIVE MulPow10(_, _)
MulPow10(x, k) ==
    IF k = 0 \/ x = <<>> THEN x
    ELSE MulPow10(MulSmall(x, Pow10(Min(k, 6))), k - Min(k, 6))
\* x divided by 10^k: the quotient, and whether a remainder was dropped.
RECURSIVE DivPow10(_, _, _)
DivPow10Rest(d, k, st) == DivPow10(Trim(d.q), k, st \/ d.r # 0)
DivPow10(x, k, st) ==
    IF k = 0 \/ x = <<>> THEN [q |-> x, st |-> st]
    ELSE DivPow10Rest(DivSmall(x, Pow10(Min(k, 6))), k - Min(k, 6), st)

\* The double nearest to (q + f) * 2^e, f a fraction in [0, 1) that is not
\* zero when st is set: 53 bits from 2^-1022 on, multiples of 2^-1074 below
\* (the subnormal doubles), an infinity from 2^1024 on.
FloatClass(sign, x) ==
    IF x.s # 0 /\ x.e + 52 >= 1024 THEN Inf(sign) ELSE Finite(sign, x)
FloatOfBits(sign, q, e, st) ==
    IF BitLen(q) + e - 1 >= 0 - 1022 THEN FloatClass(sign, FRound(1, q, e, st))
    ELSE Finite(sign, FRound(1, RoundShift(q, 0 - 1074 - e, st), 0 - 1074, FALSE))
FloatOfQuotient(sign, d, e) == FloatOfBits(sign, d.q, e, d.st)
\* The double nearest to n * 10^e10, n > 0: for a negative e10, n is scaled
\* by a power of two that leaves the quotient more than 53 bits
\* (10^k < 2^s for s = (10 k + 2) / 3).
ScaleBits(k) == 64 + (10 * k + 2) \div 3
FloatOfDecimal(sign, n, e10) ==
    IF e10 >= 0 THEN FloatOfBits(sign, MulPow10(n, e10), 0, FALSE)
    ELSE FloatOfQuotient(sign,
            DivPow10(ShiftLeft(n, ScaleBits(0 - e10)), 0 - e10, FALSE),
            0 - ScaleBits(0 - e10))
\* digs * 10^e10 for a digit string without leading zeros. A value of 10^310
\* or more is an infinity and one below 10^-330 is zero, whatever its digits.
FloatOfDigits(sign, digs, e10) ==
    IF digs = <<>> THEN Finite(sign, FZero)
    ELSE IF Len(digs) + e10 > 310 THEN Inf(sign)
    ELSE IF Len(digs) + e10 < 0 - 330 THEN Finite(sign, FZero)
    ELSE FloatOfDecimal(sign, NatOfDigitsFrom(digs, 1, <<>>), e10)

\* The exponent part of a float literal: an optional sign and digits. An
\* exponent of more than 6 digits counts as one of 6 nines (the value is an
\* infinity or zero either way).
ExpDigits(d) == IF Len(d) > 6 THEN 999999 ELSE DigitsValue(d)
ExpOfSigned(sg) ==
    IF ValidDigits(sg[2])
    THEN Parsed(sg[1] * ExpDigits(StripZeros(PlainDigits(sg[2]))))
    ELSE NotParsed

\* The mantissa ip.fp of a float literal: digit strings around at most one
\* point, one of them at least not empty.
FloatOf(sign, ip, fp, ex) ==
    IF /\ ex.ok
       /\ ip = <<>> \/ ValidDigits(ip)
       /\ fp = <<>> \/ ValidDigits(fp)
       /\ Len(ip) + Len(fp) > 0
    THEN Parsed(FloatOfDigits(sign, StripZeros(PlainDigits(ip) \o PlainDigits(fp)),
                              ex.v - Len(PlainDigits(fp))))
    ELSE NotParsed
FloatOfParts(sign, parts, ex) ==
    IF Len(parts) > 2 THEN NotParsed
    ELSE FloatOf(sign, parts[1], IF Len(parts) = 2 THEN parts[2] ELSE <<>>, ex)
FloatOfExp(sign, me) ==
    IF Len(me) > 2 THEN NotParsed
    ELSE FloatOfParts(sign, SplitChars(me[1], {"."}),
                      IF Len(me) = 2 THEN ExpOfSigned(SignOf(me[2])) ELSE Parsed(0))
\* Python's float(str): white space stripped, an optional sign, then nan, inf
\* or infinity in any letter case, or a decimal literal with an optional
\* exponent; anything else is a ValueError.
FloatOfSigned(sg) ==
    IF Lower(sg[2]) = <<"n", "a", "n">> THEN Parsed(NaN)
    ELSE IF Lower(sg[2]) \in {<<"i", "n", "f">>,
                              <<"i", "n", "f", "i", "n", "i", "t", "y">>}
    THEN Parsed(Inf(sg[1]))
    ELSE FloatOfExp(sg[1], SplitChars(sg[2], {"e", "E"}))
PyFloat(s) == FloatOfSigned(SignOf(LStrip(RStrip(s))))

\* datetime.strptime(s, "%H:%M:%S,%f"), or with lead, " %H:%M:%S,%f" (a space
\* in the format matches one or more white space characters). The value is
\* the time of day <<hour, minute, second, microsecond>> of the datetime.
\* %f: one to six digits, the microseconds.
Frac6(f) == DigitsValue(f) * Pow10(6 - Len(f))
TwoDigits(x) == Len(x) \in {1, 2} /\ AllDigits(x)
TimeOf(h, m, sf) ==
    IF /\ Len(sf) = 2 /\ TwoDigits(h) /\ TwoDigits(m) /\ TwoDigits(sf[1])
       /\ Len(sf[2]) \in 1..6 /\ AllDigits(sf[2])
       /\ DigitsValue(h) <= 23 /\ DigitsValue(m) <= 59 /\ DigitsValue(sf[1]) <= 59
    THEN Parsed(<<DigitsValue(h), DigitsValue(m), DigitsValue(sf[1]), Frac6(sf[2])>>)
    ELSE NotParsed
TimeOfParts(hms) ==
    IF Len(hms) # 3 THEN NotParsed
    ELSE TimeOf(hms[1], hms[2], SplitChars(hms[3], {","}))
Strptime(s, lead) ==
    IF lead /\ (s = <<>> \/ Head(s) \notin Whitespace) THEN NotParsed
    ELSE TimeOfParts(SplitChars(IF lead THEN LStrip(s) ELSE s, {":"}))

\* ------------------------------------------------- VideoMeta.readfromsrt

\* A Python slice s[lo:hi] (0-based, hi exclusive), which never raises.
Slice(s, lo, hi) == SubSeq(s, lo + 1, Min(hi, Len(s)))

Raised(kind) == [exc |-> kind, rec |-> <<>>]

\* round(float(d + m/60 + s/3600), 6), in millionths of a degree.
SrtDecimal(d, m, s) == FRound6(FAdd(FAdd(FOfInt(d), FDiv(m, 60)), FDiv(s, 3600)))

\* Lines 220-228: the record's fields in the order the code evaluates them;
\* the first failure is the exception raised. A missing token is an
\* IndexError, a token or timestamp that does not parse a ValueError.
BlockFields(loc, latT, lngT, s_time, e_time, dline) ==
    IF ~PyInt(latT[1]).ok THEN Raised("ValueError")
    ELSE IF Len(latT) < 2 THEN Raised("IndexError")
    ELSE IF ~PyInt(latT[2]).ok THEN Raised("ValueError")
    ELSE IF Len(latT) < 3 THEN Raised("IndexError")
    ELSE IF ~PyInt(latT[3]).ok THEN Raised("ValueError")
    ELSE IF Len(lngT) < 1 THEN Raised("IndexError")
    ELSE IF ~PyInt(lngT[1]).ok THEN Raised("ValueError")
    ELSE IF Len(lngT) < 2 THEN Raised("IndexError")
    ELSE IF ~PyInt(lngT[2]).ok THEN Raised("ValueError")
    ELSE IF Len(lngT) < 3 THEN Raised("IndexError")
    ELSE IF ~PyInt(lngT[3]).ok THEN Raised("ValueError")
    ELSE IF Len(loc) < 13 THEN Raised("IndexError")
    ELSE IF ~PyFloat(loc[13]).ok THEN Raised("ValueError")
    ELSE IF ~PyFloat(SplitChars(loc[11], {"m"})[1]).ok THEN Raised("ValueError")
    ELSE IF ~Strptime(s_time, FALSE).ok THEN Raised("ValueError")
    ELSE IF ~Strptime(e_time, TRUE).ok THEN Raised("ValueError")
    ELSE [exc |-> "none",
          rec |-> [datetime |-> SplitChars(dline, {NL})[1],
                   lat |-> SrtDecimal(PyInt(latT[1]).v, PyInt(latT[2]).v,
                                      PyInt(latT[3]).v),
                   lng |-> SrtDecimal(PyInt(lngT[1]).v, PyInt(lngT[2]).v,
                                      PyInt(lngT[3]).v),
                   heading |-> PyFloat(loc[13]).v,
                   altitude |-> PyFloat(SplitChars(loc[11], {"m"})[1]).v,
                   frame_start |-> Strptime(s_time, FALSE).v,
                   frame_end |-> Strptime(e_time, TRUE).v]]

\* Lines 217-218: the two timestamps of the timing line split at the arrow.
BlockTimes(loc, arrow, dline) ==
    IF Len(arrow) < 2 THEN Raised("IndexError")
    ELSE BlockFields(loc, Slice(loc, 0, 3), Slice(loc, 5, 8),
                     SplitChars(arrow[1], {" "})[1], SplitChars(arrow[2], {NL})[1],
                     dline)

\* The body of the try block after the counter matched (lines 216-228): the
\* record built from the three lines after line itr (0-based), or the first
\* exception its evaluation raises. The coordinate line is split at the
\* characters of the class of line 216 ("Acirc" stands for the one character
\* before the degree sign in it), the timing line at "-->".
ExtractBlock(text, at) ==
    IF at + 3 >= Len(text) THEN Raised("IndexError")
    ELSE BlockTimes(SplitChars(text[at + 4], {"Acirc", Deg, "'", "\"", ",", " "}),
                    SplitSeq(text[at + 2], <<"-", "-", ">">>), text[at + 3])

\* Line 214: int(line) == counter; an int() that fails is a ValueError, caught.
MatchesAtLeast(n, c) == n.ok /\ n.v >= c
Matches(n, c) == n.ok /\ n.v = c

\* Lines 215-230 for a matched line: the counter advances first, then the
\* block is extracted; r is what the extraction gave. The except clause of
\* line 229 catches a ValueError and nothing else.
ScanMatched(c, r) ==
    IF r.exc = "none"
    THEN [counter |-> c + 1, add |-> <<r.rec>>, exc |-> "none"]
    ELSE [counter |-> c + 1, add |-> <<>>,
          exc |-> IF r.exc = "ValueError" THEN "none" ELSE r.exc]

\* One iteration of the scan loop (lines 212-230) on line itr (0-based) with
\* the counter c: the counter after it, the record it appends (if any) and the
\* exception that escapes it ("none" when it completes).
ScanStep(text, at, c) ==
    IF ~Matches(PyInt(text[at + 1]), c)
    THEN [counter |-> c, add |-> <<>>, exc |-> "none"]
    ELSE ScanMatched(c, ExtractBlock(text, at))

\* ------------------------------------------------------------ ImageMeta

\* PIL.ExifTags.TAGS and GPSTAGS, restricted to the tags the code reads.
TAGS ==
    (256 :> "ImageWidth") @@ (257 :> "ImageLength") @@ (271 :> "Make")
    @@ (272 :> "Model") @@ (34853 :> "GPSInfo") @@ (36867 :> "DateTimeOriginal")
    @@ (37386 :> "FocalLength") @@ (37510 :> "UserComment")
GPSTAGS ==
    (1 :> "GPSLatitudeRef") @@ (2 :> "GPSLatitude") @@ (3 :> "GPSLongitudeRef")
    @@ (4 :> "GPSLongitude") @@ (6 :> "GPSAltitude") @@ (17 :> "GPSImgDirection")

\* TAGS.get(key): the tag's name, or None for a key the table does not hold.
TagsGet(key) == IF key \in DOMAIN TAGS THEN TAGS[key] ELSE "None"

\* A dictionary re-keyed by name: {names[k]: d[k]} for the keys names holds.
Relabel(d, names) ==
    [n \in {names[k] : k \in DOMAIN d \cap DOMAIN names} |->
        d[CHOOSE k \in DOMAIN d \cap DOMAIN names : names[k] = n]]

\* labeled_exif (lines 99-101): every key of exif under TAGS.get(key).
LabeledExif(exif) ==
    [n \in {TagsGet(k) : k \in DOMAIN exif} |->
        exif[CHOOSE k \in DOMAIN exif : TagsGet(k) = n]]

Fail(kind) == [exc |-> kind, ret |-> <<>>]
Done(r) == [exc |-> "none", ret |-> r]

\* __get_geotagging (lines 27-42) on e, what _getexif() gave: "not exif" holds
\* of None and of an empty dictionary.
GetGeotagging(e) ==
    IF e.none \/ DOMAIN e.d = {} THEN Fail("ValueError: No EXIF metadata found")
    ELSE IF 34853 \notin DOMAIN e.d THEN Fail("ValueError: No EXIF geotagging found")
    ELSE Done(Relabel(e.d[34853], GPSTAGS))

\* A rational (numerator, denominator) divided out (lines 112, 115, 116).
Quot(r) == FDiv(r[1], r[2])

\* __get_decimal_from_dms (lines 45-64) for non-zero denominators: the three
\* terms as the doubles the divisions give, negated for S and W, summed from
\* the left and rounded to 6 decimals (millionths).
DmsTermsOf(d, m, s) ==
    [degrees |-> FDiv(d[1], d[2]),
     minutes |-> FDivInt(FDiv(m[1], m[2]), 60),
     seconds |-> FDivInt(FDiv(s[1], s[2]), 3600)]
DmsSumNegDegreesOnly(t, hemi) ==
    IF hemi \in {"S", "W"}
    THEN FRound6(FAdd(FAdd(FNeg(t.degrees), t.minutes), t.seconds))
    ELSE FRound6(FAdd(FAdd(t.degrees, t.minutes), t.seconds))
DmsSum(t, hemi) ==
    IF hemi \in {"S", "W"}
    THEN FRound6(FAdd(FAdd(FNeg(t.degrees), FNeg(t.minutes)), FNeg(t.seconds)))
    ELSE FRound6(FAdd(FAdd(t.degrees, t.minutes), t.seconds))
GetDecimalFromDms(triple, hemi) ==
    DmsSum(DmsTermsOf(triple[1], triple[2], triple[3]), hemi)
DmsZeroDen(triple) == triple[1][2] = 0 \/ triple[2][2] = 0 \/ triple[3][2] = 0

Samsung == <<"s", "a", "m", "s", "u", "n", "g">>
SmA505f == <<"s", "m", "-", "a", "5", "0", "5", "f">>
Nul == "nul"

\* Lines 124-131: the device gate. Make is read first; Model only when the
\* make matches (and short-circuits). A missing key is a KeyError. The sensor
\* constants of lines 127-129 are in millionths.
DeviceGate(labeled, rec) ==
    IF "Make" \notin DOMAIN labeled THEN Fail("KeyError")
    ELSE IF Lower(labeled["Make"]) # Samsung THEN Done(rec)
    ELSE IF "Model" \notin DOMAIN labeled THEN Fail("KeyError")
    ELSE IF Lower(labeled["Model"]) # SmA505f THEN Done(rec)
    ELSE Done(rec @@ [senwidth |-> 5180000, senheight |-> 3890000,
                      h_fov |-> 66800000])

\* Lines 119-122: yaw, pitch and roll, tokens 4, 6 and 8 of the comment.
ReadAngles(labeled, g, split) ==
    IF Len(split) < 5 THEN Fail("IndexError")
    ELSE IF ~PyFloat(split[5]).ok THEN Fail("ValueError")
    ELSE IF Len(split) < 7 THEN Fail("IndexError")
    ELSE IF ~PyFloat(split[7]).ok THEN Fail("ValueError")
    ELSE IF Len(split) < 9 THEN Fail("IndexError")
    ELSE IF ~PyFloat(split[9]).ok THEN Fail("ValueError")
    ELSE DeviceGate(labeled,
            [datetime |-> labeled["DateTimeOriginal"],
             imgwidth |-> labeled["ImageWidth"],
             imgheight |-> labeled["ImageLength"],
             focallength |-> Quot(labeled["FocalLength"]),
             lat |-> GetDecimalFromDms(g["GPSLatitude"], g["GPSLatitudeRef"]),
             lng |-> GetDecimalFromDms(g["GPSLongitude"], g["GPSLongitudeRef"]),
             heading |-> Quot(g["GPSImgDirection"]),
             altitude |-> Quot(g["GPSAltitude"]),
             yaw |-> PyFloat(split[5]).v,
             pitch |-> PyFloat(split[7]).v,
             roll |-> PyFloat(split[9]).v])

\* Lines 109-119: the fields in the order the code reads them. A missing key
\* is a KeyError, a zero denominator a ZeroDivisionError. The comment is split
\* at the characters of the class of line 119.
ReadFields(labeled, g) ==
    IF \/ "DateTimeOriginal" \notin DOMAIN labeled
       \/ "ImageWidth" \notin DOMAIN labeled
       \/ "ImageLength" \notin DOMAIN labeled
       \/ "FocalLength" \notin DOMAIN labeled THEN Fail("KeyError")
    ELSE IF labeled["FocalLength"][2] = 0 THEN Fail("ZeroDivisionError")
    ELSE IF "GPSLatitude" \notin DOMAIN g \/ "GPSLatitudeRef" \notin DOMAIN g
         THEN Fail("KeyError")
    ELSE IF DmsZeroDen(g["GPSLatitude"]) THEN Fail("ZeroDivisionError")
    ELSE IF "GPSLongitude" \notin DOMAIN g \/ "GPSLongitudeRef" \notin DOMAIN g
         THEN Fail("KeyError")
    ELSE IF DmsZeroDen(g["GPSLongitude"]) THEN Fail("ZeroDivisionError")
    ELSE IF "GPSImgDirection" \notin DOMAIN g THEN Fail("KeyError")
    ELSE IF g["GPSImgDirection"][2] = 0 THEN Fail("ZeroDivisionError")
    ELSE IF "GPSAltitude" \notin DOMAIN g THEN Fail("KeyError")
    ELSE IF g["GPSAltitude"][2] = 0 THEN Fail("ZeroDivisionError")
    ELSE IF "UserComment" \notin DOMAIN labeled THEN Fail("KeyError")
    ELSE ReadAngles(labeled, g, SplitChars(labeled["UserComment"], {Nul, "^", ":", ","}))

\* readfromimage (lines 93-131) on the file img = [isfile, exif], where exif
\* is what Image._getexif() gives: [none |-> TRUE] for an image without an
\* EXIF segment, else [none |-> FALSE, d |-> the tag dictionary]. The result
\* is the returned record, or the first exception raised: line 100 calls
\* exif.items(), an AttributeError on None, before line 104 looks for geotags.
ReadFromImage(img) ==
    IF ~img.isfile THEN Fail("ValueError: No file found")
    ELSE IF img.exif.none THEN Fail("AttributeError")
    ELSE IF GetGeotagging(img.exif).exc # "none" THEN GetGeotagging(img.exif)
    ELSE ReadFields(LabeledExif(img.exif.d), GetGeotagging(img.exif).ret)

\* os.path.basename: what follows the last "/".
Basename(path) == SplitChars(path, {"/"})[Len(SplitChars(path, {"/"}))]

\* ------------------------------------------------------------ csv export

\* A cell of a row: the record's value under the column, empty when absent
\* (csv.DictWriter's restval). The rendering of a value as text is the csv
\* module's and is not modelled.
Row(rec, cols) ==
    [i \in 1..Len(cols) |-> IF cols[i] \in DOMAIN rec THEN <<rec[cols[i]]>> ELSE <<>>]

\* What a complete write leaves in the file (lines 162-166 and 241-245): the
\* header row, then one row per record.
Table(old, cols, records) ==
    <<cols>> \o [i \in 1..Len(records) |-> Row(records[i], cols)]

\* A file's content: its complete rows, and whether a part of a further row
\* follows them (some but not all of its bytes).
Content(rows, torn) == [exists |-> TRUE, rows |-> rows, torn |-> torn]

\* The file after a write attempt that fails once k rows (header included)
\* and, when torn, a part of the next row have reached it: any prefix of the
\* table's bytes. k = 1 + Len(records) is the complete table.
FirstRows(t, n, k) == SubSeq(t, 1, Len(t) - (1 + n) + k)
Written(old, cols, records, k, torn) ==
    Content(FirstRows(Table(old, cols, records), Len(records), k), torn)

\* ------------------------------------------------------------ the inputs

MaxBlocks == 3
MaxDrop == 3
MaxPaths == 3
MaxNum == 2

RECURSIVE IntStr(_)
\* str(n) for n >= 0.
IntStr(n) == IF n < 10 THEN <<DigitChars[n + 1]>>
             ELSE IntStr(n \div 10) \o <<DigitChars[(n % 10) + 1]>>

\* The lines of a block of an OpenCamera .srt log numbered n whose content
\* follows block number b: the counter line, the timing line, the datetime
\* line, the coordinate line, a blank line.
TimingLine(b, kind) ==
    <<"0", ":", "0", ":">> \o IntStr(b)
    \o (IF kind = "badtime" THEN <<".">> ELSE <<",">>) \o <<"5">>
    \o (IF kind = "noarrow" THEN <<" ">> ELSE <<" ", "-", "-", ">", " ">>)
    \o <<"0", ":", "0", ":">> \o IntStr(b) \o <<",", "9", NL>>
\* The heading of block content b, as the log may spell it: 8, 8e1 or nan.
HeadingText(b) ==
    IF b % 3 = 1 THEN <<"8">>
    ELSE IF b % 3 = 2 THEN <<"8", "e", "1">> ELSE <<"n", "a", "n">>
\* A "badcoord" line has one token that is no number: the latitude minutes
\* (b % 3 = 1, read by int()), the altitude (b % 3 = 2) or the heading
\* (b % 3 = 0), both read by float().
CoordLine(b, kind) ==
    IF kind = "short" THEN IntStr(b) \o <<Deg, "2", "'", "3", "\"", NL>>
    ELSE IntStr(b) \o <<Deg>>
         \o (IF kind = "badcoord" /\ b % 3 = 1 THEN <<"x">> ELSE <<"2">>)
         \o <<"'", "3", "\"", ",", " ", "4", Deg, "5", "'", "6", "\"", ",", " ",
              "7", ".", "5">>
         \o (IF kind = "badcoord" /\ b % 3 = 2 THEN <<".">> ELSE <<>>)
         \o <<"m", ",", " ">>
         \o (IF kind = "badcoord" /\ b % 3 = 0 THEN <<"0", "x", "8">>
             ELSE HeadingText(b))
         \o <<Deg, NL>>
Block(n, b, kind) ==
    <<IntStr(n) \o <<NL>>, TimingLine(b, kind),
      <<"x", " ">> \o IntStr(b) \o <<NL>>, CoordLine(b, kind), <<NL>>>>

RECURSIVE Concat(_)
Concat(ss) == IF ss = <<>> THEN <<>> ELSE Head(ss) \o Concat(Tail(ss))

\* A log of n blocks of the given kinds: block j is numbered j, or j + off
\* from block g on (off = 1 skips a number, off = -1 repeats one), the last
\* drop lines of the file cut off.
DropLast(all, drop) == SubSeq(all, 1, IF Len(all) > drop THEN Len(all) - drop ELSE 0)
SrtLines(kinds, g, off, drop) ==
    DropLast(Concat([j \in 1..Len(kinds) |->
                Block(IF j < g THEN j ELSE j + off, j, kinds[j])]), drop)


\* ---- images

Makes ==
    <<Samsung, <<"S", "A", "M", "S", "U", "N", "G">>,
      <<"S", "a", "m", "s", "u", "n", "g">>, <<"s", "a", "m", "s", "u", "n">>,
      <<"x">>>>
Models ==
    <<SmA505f, <<"S", "M", "-", "A", "5", "0", "5", "F">>,
      <<"s", "m", "-", "a", "5", "0", "5">>, <<"x">>>>

GoodComment ==
    <<"A", Nul, Nul, Nul, "Y", ":", "1", ".", "5", ",", "P", ":", "-", "2", ",",
      "R", ":", "3">>
GoodGps(latref) ==
    (1 :> latref) @@ (2 :> <<<<10, 1>>, <<30, 1>>, <<0, 1>>>>) @@ (3 :> "E")
    @@ (4 :> <<<<18, 1>>, <<4, 1>>, <<1917, 100>>>>) @@ (6 :> <<253, 10>>)
    @@ (17 :> <<90, 1>>)
GoodExif ==
    (256 :> 4000) @@ (257 :> 3000) @@ (34853 :> GoodGps("N"))
    @@ (36867 :> <<"2", "0", "2", "1", ":", "0", "5">>) @@ (37386 :> <<392, 100>>)
    @@ (37510 :> GoodComment)

Without(d, k) == [x \in DOMAIN d \ {k} |-> d[x]]
Dict(d) == [none |-> FALSE, d |-> d]
NoneExif == [none |-> TRUE, d |-> <<>>]

RequiredTags == <<256, 257, 34853, 36867, 37386, 37510>>
GpsTagIds == <<1, 2, 3, 4, 6, 17>>

\* The tag dictionary of variant v of the good image: 0 is the good image,
\* 1-6 lack one required tag, 7-12 one GPS tag, 13 has no EXIF segment, 14 an
\* empty dictionary, 15 is no file, 16 has a zero focal-length denominator, 17
\* a comment with too few fields, 18 a non-numeric angle, 19 a tag TAGS does
\* not know, 20 a southern latitude.
VariantExif(v) ==
    IF v = 0 \/ v = 15 THEN Dict(GoodExif)
    ELSE IF v \in 1..6 THEN Dict(Without(GoodExif, RequiredTags[v]))
    ELSE IF v \in 7..12
         THEN Dict((34853 :> Without(GoodGps("N"), GpsTagIds[v - 6])) @@ GoodExif)
    ELSE IF v = 13 THEN NoneExif
    ELSE IF v = 14 THEN Dict(<<>>)
    ELSE IF v = 16 THEN Dict((37386 :> <<392, 0>>) @@ GoodExif)
    ELSE IF v = 17 THEN Dict((37510 :> SubSeq(GoodComment, 1, 14)) @@ GoodExif)
    ELSE IF v = 18 THEN Dict((37510 :> <<"A", Nul, Nul, Nul, "Y", ":", "x">>) @@ GoodExif)
    ELSE IF v = 19 THEN Dict((1 :> 7) @@ GoodExif)
    ELSE Dict((34853 :> GoodGps("S")) @@ GoodExif)

\* mk and md index Makes and Models; 0 is a dictionary without the tag.
WithDevice(e, mk, md) ==
    IF e.none \/ DOMAIN e.d = {} THEN e
    ELSE Dict((IF mk = 0 THEN <<>> ELSE (271 :> Makes[mk]))
              @@ (IF md = 0 THEN <<>> ELSE (272 :> Models[md])) @@ e.d)

ImageOf(mk, md, v) == [isfile |-> v # 15, exif |-> WithDevice(VariantExif(v), mk, md)]
FileName(mk, md, v) ==
    IntStr(mk) \o <<"-">> \o IntStr(md) \o <<"-">> \o IntStr(v) \o <<".", "j">>
ImagePath(mk, md, v) ==
    (IF v % 3 = 0 THEN <<>> ELSE IF v % 3 = 1 THEN <<"d", "/">> ELSE <<"d", "/", "e", "/">>)
    \o FileName(mk, md, v)

Variants == (0..Len(Makes)) \X (0..Len(Models)) \X (0..20)
\* The files of the model's file system, by path.
ImageOfVariant(t) == ImageOf(t[1], t[2], t[3])
FS == [p \in {ImagePath(t[1], t[2], t[3]) : t \in Variants} |->
         ImageOfVariant(CHOOSE t \in Variants : ImagePath(t[1], t[2], t[3]) = p)]

\* The paths the batches are drawn from: a Samsung image, two images of other
\* devices in other directories, an image without GPS data, a missing file.
BatchVariants == {<<1, 1, 0>>, <<5, 4, 19>>, <<2, 2, 20>>, <<1, 1, 3>>, <<1, 1, 15>>}
BatchPaths == {ImagePath(t[1], t[2], t[3]) : t \in BatchVariants}

\* ---- coordinates

Rationals == (0..MaxNum) \X (0..MaxNum)
DmsInputs ==
    (Rationals \X Rationals \X Rationals)
    \cup {<<<<10, 1>>, <<30, 1>>, <<0, 1>>>>, <<<<59, 1>>, <<20, 1>>, <<5817, 100>>>>,
          <<<<0, 1>>, <<0, 1>>, <<9, 8>>>>, <<<<1, 32>>, <<0, 1>>, <<9, 8>>>>,
          <<<<0, 1>>, <<0, 1>>, <<27, 8>>>>}

\* ------------------------------------------------------ the state machine

VARIABLES
    op,         \* the call: "srt", "batch", "image" or "dms"
    pc,         \* "start", "scan", "batch", "export", "prompt", "returned", "raised"
    exc,        \* the exception that escaped the call ("none" so far)
    ret,        \* the value returned: [set, val]
    isfile,     \* whether srtfilepath is a regular file
    filename,   \* readfromimage's path
    listofimg,  \* readfrombatch's paths
    dms,        \* the converter's triplet of rationals
    ref,        \* the converter's reference letter
    csvwrite,   \* the csvwrite flag
    data,       \* the lines of the log, as readlines gives them
    itr,        \* lines (or paths) processed so far: the loop's 0-based index
    counter,    \* the block counter
    metaData,   \* the records collected
    collected,  \* the records as they were when the export began
    csvfile,    \* the target file: [exists, rows, torn]
    target,     \* its condition: "free", "locked" (open fails) or "failing"
    tries,      \* write attempts since the last acknowledgement
    failed      \* whether a write attempt of this export has failed

vars == <<op, pc, exc, ret, isfile, filename, listofimg, dms, ref, csvwrite, data,
          itr, counter, metaData, collected, csvfile, target, tries, failed>>

inputs == <<op, isfile, filename, listofimg, dms, ref, csvwrite, data>>

NoFile == [exists |-> FALSE, rows |-> <<>>, torn |-> FALSE]
StaleFile == Content(<<<<"stale">>, <<"rows">>>>, FALSE)
Returned(v) == [set |-> TRUE, val |-> v]

\* The file at an image path.
FileAt(path) ==
    IF path \in DOMAIN FS THEN FS[path] ELSE [isfile |-> FALSE, exif |-> NoneExif]

InitCommon ==
    /\ exc = "none" /\ ret = [set |-> FALSE, val |-> <<>>]
    /\ itr = 0 /\ counter = 0 /\ metaData = <<>> /\ collected = <<>>
    /\ tries = 0 /\ failed = FALSE
    /\ csvfile \in (IF csvwrite THEN {NoFile, StaleFile} ELSE {NoFile})
    /\ target = "free"

InitSrt ==
    /\ op = "srt" /\ pc = "start"
    /\ \/ /\ isfile = TRUE
          /\ data \in
                {SrtLines(kinds, g, off, drop) :
                    kinds \in UNION {[1..n -> {"ok", "badcoord", "short", "noarrow",
                                               "badtime"}] : n \in 0..MaxBlocks},
                    g \in 1..MaxBlocks, off \in {-1, 0, 1}, drop \in 0..MaxDrop}
       \/ isfile = FALSE /\ data = <<>>
    /\ csvwrite \in BOOLEAN
    /\ filename = <<>> /\ listofimg = <<>> /\ dms = <<>> /\ ref = "N"
    /\ InitCommon

InitBatch ==
    /\ op = "batch" /\ pc = "batch"
    /\ listofimg \in UNION {[1..n -> BatchPaths] : n \in 0..MaxPaths}
    /\ csvwrite \in BOOLEAN
    /\ isfile = FALSE /\ data = <<>>
    /\ filename = <<>> /\ dms = <<>> /\ ref = "N"
    /\ InitCommon

InitImage ==
    /\ op = "image" /\ pc = "start"
    /\ filename \in DOMAIN FS
    /\ csvwrite = FALSE
    /\ isfile = FALSE /\ data = <<>>
    /\ listofimg = <<>> /\ dms = <<>> /\ ref = "N"
    /\ InitCommon

InitDms ==
    /\ op = "dms" /\ pc = "start"
    /\ dms \in DmsInputs /\ ref \in {"N", "S", "E", "W"}
    /\ csvwrite = FALSE
    /\ isfile = FALSE /\ data = <<>>
    /\ filename = <<>> /\ listofimg = <<>>
    /\ InitCommon

Init == InitSrt \/ InitBatch \/ InitImage \/ InitDms

\* ---- VideoMeta.readfromsrt

\* Lines 202-211: the file check, readlines, counter = 1.
SrtOpen ==
    /\ op = "srt" /\ pc = "start"
    /\ IF isfile
       THEN counter' = 1 /\ itr' = 0 /\ pc' = "scan" /\ exc' = exc
       ELSE pc' = "raised" /\ exc' = "ValueError: No file found"
            /\ UNCHANGED <<counter, itr>>
    /\ UNCHANGED <<inputs, ret, metaData, collected, csvfile, target, tries, failed>>

\* Lines 212-230: one iteration of the scan, st what it gave.
ScanApply(st) ==
    /\ counter' = st.counter
    /\ metaData' = metaData \o st.add
    /\ IF st.exc = "none"
       THEN itr' = itr + 1 /\ pc' = pc /\ exc' = exc
       ELSE itr' = itr /\ pc' = "raised" /\ exc' = st.exc
ScanLine ==
    /\ op = "srt" /\ pc = "scan" /\ itr < Len(data)
    /\ ScanApply(ScanStep(data, itr, counter))
    /\ UNCHANGED <<inputs, ret, collected, csvfile, target, tries, failed>>

\* The end of a collecting loop (lines 151-158, 231-237): on to the export,
\* with the target file in whatever condition it is in by then, or lines 172
\* and 252, the return.
LoopEnd ==
    /\ collected' = metaData
    /\ IF csvwrite
       THEN pc' = "export" /\ ret' = ret /\ target' \in {"free", "locked", "failing"}
       ELSE pc' = "returned" /\ ret' = Returned(metaData) /\ target' = target
    /\ UNCHANGED <<inputs, exc, itr, counter, metaData, csvfile, tries, failed>>

ScanEnd == op = "srt" /\ pc = "scan" /\ itr = Len(data) /\ LoopEnd

\* ---- ImageMeta

\* Line 149: the record with the path's basename as imgname.
Named(r, path) ==
    IF r.exc # "none" THEN r ELSE Done([imgname |-> Basename(path)] @@ r.ret)

\* Lines 146-149 for one path: the record to append, or the exception.
BatchItem(path) ==
    IF ~FileAt(path).isfile THEN Fail("ValueError: No file found")
    ELSE Named(ReadFromImage(FileAt(path)), path)

\* Line 150, or the exception leaving the loop: the list after the iteration
\* and what escapes it.
BatchAppendSkipsFailures(md, r) ==
    IF r.exc = "none" THEN [metaData |-> md \o <<r.ret>>, exc |-> "none"]
    ELSE [metaData |-> md, exc |-> "none"]
BatchAppend(md, r) ==
    IF r.exc = "none" THEN [metaData |-> md \o <<r.ret>>, exc |-> "none"]
    ELSE [metaData |-> md, exc |-> r.exc]

BatchApply(st) ==
    /\ metaData' = st.metaData
    /\ IF st.exc = "none"
       THEN itr' = itr + 1 /\ pc' = pc /\ exc' = exc
       ELSE itr' = itr /\ pc' = "raised" /\ exc' = st.exc
BatchStep ==
    /\ op = "batch" /\ pc = "batch" /\ itr < Len(listofimg)
    /\ BatchApply(BatchAppend(metaData, BatchItem(listofimg[itr + 1])))
    /\ UNCHANGED <<inputs, ret, counter, collected, csvfile, target, tries, failed>>

BatchEnd == op = "batch" /\ pc = "batch" /\ itr = Len(listofimg) /\ LoopEnd

\* A call of readfromimage, r what it gave.
ReadApply(r) ==
    IF r.exc = "none"
    THEN pc' = "returned" /\ ret' = Returned(r.ret) /\ exc' = exc
    ELSE pc' = "raised" /\ exc' = r.exc /\ ret' = ret
ReadImage ==
    /\ op = "image" /\ pc = "start"
    /\ ReadApply(ReadFromImage(FileAt(filename)))
    /\ UNCHANGED <<inputs, itr, counter, metaData, collected, csvfile, target,
                   tries, failed>>

\* A call of __get_decimal_from_dms.
Convert ==
    /\ op = "dms" /\ pc = "start"
    /\ IF DmsZeroDen(dms)
       THEN pc' = "raised" /\ exc' = "ZeroDivisionError" /\ ret' = ret
       ELSE pc' = "returned" /\ ret' = Returned(GetDecimalFromDms(dms, ref))
            /\ exc' = exc
    /\ UNCHANGED <<inputs, itr, counter, metaData, collected, csvfile, target,
                   tries, failed>>

\* ---- the export loop (lines 160-171 and 239-250)

\* csv_columns (lines 156-157 and 236).
Columns ==
    IF op = "batch"
    THEN <<"datetime", "imgwidth", "imgheight", "focallength", "lat", "lng",
           "heading", "altitude", "yaw", "pitch", "roll", "senwidth", "senheight",
           "h_fov", "imgname">>
    ELSE <<"datetime", "lat", "lng", "heading", "altitude", "frame_start",
           "frame_end">>

\* Lines 170-171 and 249-250: an IOError is caught and the operator prompted.
Failure ==
    /\ pc' = "prompt" /\ failed' = TRUE /\ ret' = ret

\* One pass of the loop body: open (which truncates), write, close. A locked
\* target fails the open; a failing one fails the write with any prefix of
\* the table in the file; both are IOErrors, caught, and end at the prompt. A
\* success breaks and returns.
WriteAttempt ==
    /\ pc = "export"
    /\ tries' = tries + 1
    /\ \/ /\ target = "locked"
          /\ csvfile' = csvfile
          /\ Failure
       \/ /\ target = "failing"
          /\ \E k \in 0..(Len(metaData) + 1), torn \in BOOLEAN :
                /\ torn => k <= Len(metaData)
                /\ csvfile' = Written(csvfile.rows, Columns, metaData, k, torn)
          /\ Failure
       \/ /\ target = "free"
          /\ csvfile' = Content(Table(csvfile.rows, Columns, metaData), FALSE)
          /\ pc' = "returned" /\ ret' = Returned(metaData) /\ failed' = failed
    /\ UNCHANGED <<inputs, exc, itr, counter, metaData, collected, target>>

\* Lines 171 and 250: input() returns when the operator presses Enter, and
\* the loop goes round.
Ack ==
    /\ pc = "prompt"
    /\ pc' = "export" /\ tries' = 0
    /\ UNCHANGED <<inputs, exc, ret, itr, counter, metaData, collected,
                   csvfile, target, failed>>

\* Lines 171 and 250: input() raises EOFError when standard input is at its
\* end (closed, or not a terminal and exhausted) and KeyboardInterrupt when
\* the operator interrupts the wait; the exception is raised in the except
\* clause and nothing catches it.
PromptRaises ==
    /\ pc = "prompt"
    /\ pc' = "raised" /\ exc' \in {"EOFError", "KeyboardInterrupt"}
    /\ UNCHANGED <<inputs, ret, itr, counter, metaData, collected, csvfile,
                   target, tries, failed>>

\* The environment: another program takes or releases the target file, or
\* the device starts or stops failing, while the export is under way.
TargetChanges ==
    /\ pc \in {"export", "prompt"}
    /\ \E t \in {"free", "locked", "failing"} \ {target} : target' = t
    /\ UNCHANGED <<inputs, pc, exc, ret, itr, counter, metaData, collected,
                   csvfile, tries, failed>>

Next ==
    \/ SrtOpen \/ ScanLine \/ ScanEnd
    \/ BatchStep \/ BatchEnd
    \/ ReadImage \/ Convert
    \/ WriteAttempt \/ Ack \/ PromptRaises \/ TargetChanges

Spec == Init /\ [][Next]_vars

\* The retry loop makes its next write attempt when it is at one (it is
\* sequential code), and a prompt that stays up is acknowledged.
FairSpec == Spec /\ WF_vars(WriteAttempt) /\ WF_vars(Ack)

\* ------------------------------------------------------------ the claims

\* ---- the coordinate converter

\* The first k decimals of r/d (0 <= r < d) as an integer, and the remainder.
DecimalStep(p, d) == <<p[1] * 10 + (p[2] * 10) \div d, (p[2] * 10) % d>>
RECURSIVE Decimals(_, _, _)
Decimals(r, d, k) ==
    IF k = 0 THEN <<0, r>> ELSE DecimalStep(Decimals(r, d, k - 1), d)

\* Whether v millionths is the exact quotient a/b (a >= 0, b > 0) rounded to 6
\* decimals: a multiple of a millionth nearest to it (either one at a tie).
NearestTo(v, whole, p, b) ==
    \/ v = whole * 1000000 + p[1] /\ 2 * p[2] <= b
    \/ v = whole * 1000000 + p[1] + 1 /\ 2 * p[2] >= b
IsRounded(v, a, b) == NearestTo(v, a \div b, Decimals(a % b, b, 6), b)

\* Whether v is degrees + minutes/60 + seconds/3600 of a triplet of
\* rationals, rounded to 6 decimals, in millionths.
IsExpectedDecimal(v, t) ==
    IsRounded(v, t[1][1] * t[2][2] * t[3][2] * 3600 + t[2][1] * t[1][2] * t[3][2] * 60
                 + t[3][1] * t[1][2] * t[2][2],
              t[1][2] * t[2][2] * t[3][2] * 3600)

C1_NeverAborts == (op = "srt" /\ isfile) => pc # "raised"

\* The heading of block content b: 8, 80 or nan.
ExpectedHeading(b) ==
    IF b % 3 = 1 THEN Finite(1, FOfInt(8))
    ELSE IF b % 3 = 2 THEN Finite(1, FOfInt(80)) ELSE NaN

\* The record of a well-formed block with content b: b deg 2' 3" north,
\* 4 deg 5' 6" east, 7.5 m, from 0:0:b,5 to 0:0:b,9.
ExpectedSrtRecord(b) ==
    [datetime |-> <<"x", " ">> \o IntStr(b),
     lat |-> b * 1000000 + 34167, lng |-> 4085000,
     heading |-> ExpectedHeading(b), altitude |-> Finite(1, FDiv(15, 2)),
     frame_start |-> <<0, 0, b, 500000>>, frame_end |-> <<0, 0, b, 900000>>]

RECURSIVE ExpectedRecords(_, _)
\* The records of the well-formed blocks among blocks j.. of the given kinds.
ExpectedRecords(kinds, j) ==
    IF j > Len(kinds) THEN <<>>
    ELSE (IF kinds[j] = "ok" THEN <<ExpectedSrtRecord(j)>> ELSE <<>>)
         \o ExpectedRecords(kinds, j + 1)

\* The kinds of block that are well-formed or fail a numeric or timestamp
\* conversion, and the logs of consecutively numbered complete blocks of them.
SkipKinds == {"ok", "badcoord", "badtime"}
ConsecutiveLogs ==
    {[data |-> SrtLines(k, 1, 0, 0), expect |-> ExpectedRecords(k, 1)] :
        k \in UNION {[1..n -> SkipKinds] : n \in 0..MaxBlocks}}

\* C2: on a log of consecutively numbered blocks, each well-formed or failing
\* a numeric or timestamp conversion, the scan raises nothing and returns
\* exactly one record per well-formed block, in the order of the blocks.
C2_SkipMalformed ==
    \A l \in ConsecutiveLogs :
        (op = "srt" /\ isfile /\ data = l.data) =>
            /\ pc # "raised"
            /\ pc \in {"export", "prompt", "returned"} => metaData = l.expect
            /\ pc = "returned" => ret = Returned(l.expect)

\* The number of matched lines among the first k: a line is matched when it
\* is an integer equal to 1 plus the number of matched lines before it.
CountNext(d, k, prev) ==
    prev + (IF PyInt(d[k]).ok /\ PyInt(d[k]).v = prev + 1 THEN 1 ELSE 0)
RECURSIVE MatchedLines(_, _)
MatchedLines(d, k) == IF k = 0 THEN 0 ELSE CountNext(d, k, MatchedLines(d, k - 1))

\* C10: the counter is 1 before the first line and, after any prefix of the
\* scan, 1 plus the number of matched lines; the records never outnumber
\* counter - 1; a step on a line that is the integer equal to the counter
\* advances the counter by exactly 1 (whether or not the block gives a
\* record), and a step on any other line changes neither counter nor records.
C10_Counter ==
    /\ []((op = "srt" /\ pc = "scan") =>
            /\ counter = 1 + MatchedLines(data, itr)
            /\ itr = 0 => counter = 1)
    /\ []((op = "srt" /\ isfile /\ pc # "start") => Len(metaData) <= counter - 1)
    /\ [][(op = "srt" /\ pc = "scan" /\ itr < Len(data)) =>
            IF PyInt(data[itr + 1]).ok /\ PyInt(data[itr + 1]).v = counter
            THEN counter' = counter + 1 /\ Len(metaData') <= Len(metaData) + 1
            ELSE counter' = counter /\ metaData' = metaData]_vars

\* Block 1 was dropped for its coordinate line, the counter advanced all the
\* same, and block 2 matched and gave its record.
C10_Witness ==
    /\ op = "srt" /\ pc = "returned"
    /\ data = SrtLines(<<"badcoord", "ok">>, 1, 0, 0)
    /\ counter = 3 /\ ret.val = <<ExpectedSrtRecord(2)>>

\* ---- the export loops

\* The header the spec gives for the table of each call.
ExpectedColumns ==
    IF op = "batch"
    THEN <<"datetime", "imgwidth", "imgheight", "focallength", "lat", "lng",
           "heading", "altitude", "yaw", "pitch", "roll", "senwidth", "senheight",
           "h_fov", "imgname">>
    ELSE <<"datetime", "lat", "lng", "heading", "altitude", "frame_start",
           "frame_end">>

\* The file holding one header row, then one row per record, in order.
ExpectedFile(records) ==
    [exists |-> TRUE, torn |-> FALSE,
     rows |-> <<ExpectedColumns>>
              \o [i \in 1..Len(records) |-> Row(records[i], ExpectedColumns)]]

\* The export loop is under way, or has been left: by the break and the
\* return, or by an exception raised inside it.
InExport == pc \in {"export", "prompt"}
LoopExited == pc = "returned" \/ (pc = "raised" /\ failed)

\* C3: in both export loops the in-memory list stays what it was when the
\* export began, whatever attempts have failed; when the loop has exited,
\* however it has, the file holds exactly the header row and one row per
\* record, in order, with no part of a row besides, and the list collected
\* has been returned.
C3_ExportIntact ==
    (csvwrite /\ (InExport \/ LoopExited)) =>
        /\ metaData = collected
        /\ LoopExited =>
              csvfile = ExpectedFile(collected) /\ ret = Returned(collected)

\* C4: after a failed write attempt the program is at the prompt and makes
\* the next attempt only once the operator has acknowledged, one attempt per
\* acknowledgement; it leaves the loop only by a successful write; and if the
\* target is eventually free for good (the operator acknowledging each
\* prompt), every export under way eventually completes.
C4_RetryLoop ==
    /\ [](pc = "export" => tries = 0)
    /\ [](pc = "prompt" => tries = 1 /\ failed /\ ~ret.set)
    /\ [][pc = "prompt" /\ pc' # pc => pc' = "export" /\ csvfile' = csvfile]_vars
    /\ [][pc = "export" /\ pc' # pc =>
            \/ pc' = "prompt"
            \/ pc' = "returned" /\ csvfile' = ExpectedFile(collected)]_vars
    /\ []((csvwrite /\ pc = "returned") => csvfile = ExpectedFile(collected))
    /\ (<>[](target = "free") => [](pc \in {"export", "prompt"} => <>(pc = "returned")))

\* ---- readfromimage

\* The required tags of the spec, by id: the tags of RequiredTags and, in the
\* GPS dictionary, those of GpsTagIds.
LacksField(d) ==
    \/ \E i \in 1..Len(RequiredTags) : RequiredTags[i] \notin DOMAIN d
    \/ \E i \in 1..Len(GpsTagIds) : GpsTagIds[i] \notin DOMAIN d[34853]

\* C5: readfromimage ends with a complete record or with the error of the
\* first failing check: file-not-found for a path that is no file; "No EXIF
\* metadata found" or "No EXIF geotagging found" for a file without a tag
\* dictionary or without a GPS dictionary; the missing-field error for a file
\* with both that lacks a required field.
C5_Classified ==
    (op = "image" /\ pc \in {"raised", "returned"}) =>
        IF ~FileAt(filename).isfile
        THEN pc = "raised" /\ exc = "ValueError: No file found"
        ELSE IF FileAt(filename).exif.none \/ DOMAIN FileAt(filename).exif.d = {}
        THEN pc = "raised" /\ exc = "ValueError: No EXIF metadata found"
        ELSE IF 34853 \notin DOMAIN FileAt(filename).exif.d
        THEN pc = "raised" /\ exc = "ValueError: No EXIF geotagging found"
        ELSE IF LacksField(FileAt(filename).exif.d)
        THEN pc = "raised" /\ exc = "KeyError"
        ELSE pc = "returned" =>
                {"datetime", "imgwidth", "imgheight", "focallength", "lat", "lng",
                 "heading", "altitude", "yaw", "pitch", "roll"} \subseteq DOMAIN ret.val

\* An image with every required field, in well-formed values.
Complete(img) ==
    /\ img.isfile /\ ~img.exif.none /\ DOMAIN img.exif.d # {}
    /\ 34853 \in DOMAIN img.exif.d /\ ~LacksField(img.exif.d)
    /\ img.exif.d[37386][2] # 0 /\ img.exif.d[37510] = GoodComment

IsSamsungA505f(d) ==
    /\ 271 \in DOMAIN d /\ Lower(d[271]) = Samsung
    /\ 272 \in DOMAIN d /\ Lower(d[272]) = SmA505f

\* C9: for an image with every required field the record has senwidth 5.18,
\* senheight 3.89 and h_fov 66.8, all three, when make is "samsung" and model
\* "sm-a505f" in any letter case, and none of the three for every other
\* device, one whose make or model is not given included.
C9_DeviceGate ==
    (op = "image" /\ pc \in {"raised", "returned"} /\ Complete(FileAt(filename))) =>
        /\ pc = "returned"
        /\ IF IsSamsungA505f(FileAt(filename).exif.d)
           THEN /\ {"senwidth", "senheight", "h_fov"} \subseteq DOMAIN ret.val
                /\ ret.val["senwidth"] = 5180000
                /\ ret.val["senheight"] = 3890000
                /\ ret.val["h_fov"] = 66800000
           ELSE {"senwidth", "senheight", "h_fov"} \cap DOMAIN ret.val = {}

\* ---- readfrombatch

\* What extraction gives for each path of the batches, tabulated, and whether
\* it fails.
Outcome == [p \in BatchPaths |-> BatchItem(p)] @@ << >>
Fails(path) == Outcome[path].exc # "none"
FirstFailure(list) ==
    CHOOSE i \in 1..Len(list) :
        Fails(list[i]) /\ \A j \in 1..(i - 1) : ~Fails(list[j])

\* C6: when extraction fails for some path of a batch, the call returns no
\* list and never reaches the export; no path after the first failing one is
\* processed; the error that leaves the call is that path's; and the table
\* file is neither created nor modified, whatever csvwrite is.
C6_BatchAborts ==
    /\ []((op = "batch" /\ \E i \in 1..Len(listofimg) : Fails(listofimg[i])) =>
            /\ ~ret.set /\ pc \in {"batch", "raised"}
            /\ itr < FirstFailure(listofimg)
            /\ pc = "raised" =>
                  /\ itr = FirstFailure(listofimg) - 1
                  /\ exc = Outcome[listofimg[FirstFailure(listofimg)]].exc)
    /\ [][(op = "batch" /\ \E i \in 1..Len(listofimg) : Fails(listofimg[i])) =>
            csvfile' = csvfile]_vars

\* A batch of three with csvwrite set has raised on its second path, the
\* table of an earlier run untouched.
C6_Witness ==
    /\ op = "batch" /\ pc = "raised" /\ csvwrite
    /\ Len(listofimg) = 3 /\ itr = 1 /\ Len(metaData) = 1
    /\ csvfile = StaleFile /\ ~ret.set

\* C7: when extraction succeeds for every path of a batch, the call raises
\* nothing and returns one record per path, in the order of the paths (a
\* repeated path giving a repeated record), each the record of the image
\* with imgname set to the last component of its path, csvwrite set or not.
C7_BatchOrder ==
    (op = "batch" /\ \A i \in 1..Len(listofimg) : ~Fails(listofimg[i])) =>
        /\ pc # "raised"
        /\ pc = "returned" =>
              /\ ret.set /\ Len(ret.val) = Len(listofimg)
              /\ \A i \in 1..Len(listofimg) : \E t \in BatchVariants :
                    /\ listofimg[i] = ImagePath(t[1], t[2], t[3])
                    /\ ret.val[i] = [imgname |-> FileName(t[1], t[2], t[3])]
                                     @@ ReadFromImage(ImageOfVariant(t)).ret

====
